---- MODULE Spec2Model ----
(***************************************************************************)
(* DetectorX: the alert-dispatch policy of the Streamlit entry point       *)
(* (app.py) and of the command-line entry point (run.py), with the         *)
(* collaborators they call (detector.py, gemini_analyzer.py, notifier.py). *)
(*                                                                         *)
(* One behaviour is one run of one entry point over one frame source.      *)
(* Time is in whole seconds.  The clock is read in two places only: by the *)
(* cooldown check and by the write of the gate.  Tick lets it advance      *)
(* between two cooldown checks; Dispatch, which is one whole dispatch      *)
(* block (try / except / finally), lets it advance by the block's duration.*)
(***************************************************************************)
EXTENDS Integers, Sequences, FiniteSets, TLC

\* -------------------------------------------------------------- bounds
MaxBoxes == 2        \* boxes the detector model returns for one frame
TimeSlack == 1       \* seconds the clock may run past one cooldown period

\* --------------------------------------------------- program constants
DefaultCooldown == 10   \* cooldown of both entry points when none is given
MaxRetries == 3         \* max_retries of attempt_remove_temp_file

Modes == {"app", "cli"}
Services == {"telegram", "whatsapp", "gemini"}
AlertLabels == {"fire", "smoke"}
\* the value of a time that has not been read yet
NoTime == 0 - 1
\* seconds by which the clock is seen to advance between two cooldown checks
TickSteps == {5, 6}
\* seconds a dispatch takes from its cooldown check to its write of the gate
DispatchDurations == {0, 5}

\* ------------------------------------------------------------ detector
\* The name table of the loaded model (self.class_names): class id -> name.
ClassNames == (0 :> "Fire") @@ (1 :> "smoke") @@ (2 :> "neutral")
\* Class ids a box may carry; 3 is not in the name table.
BoxClassIds == 0..3
Confidences == {81}

\* f"UnknownID_{class_id_raw}"
UnknownName(id) ==
  CASE id = 3 -> "UnknownID_3"
    [] id = 4 -> "UnknownID_4"
    [] OTHER -> "UnknownID"

\* self.class_names.get(class_id_raw, f"UnknownID_{class_id_raw}")
LabelRaw(id) == IF id \in DOMAIN ClassNames THEN ClassNames[id] ELSE UnknownName(id)

\* str.lower() on the names that occur
Lower(s) ==
  CASE s = "Fire" -> "fire"
    [] s = "Smoke" -> "smoke"
    [] s = "UnknownID_3" -> "unknownid_3"
    [] s = "UnknownID_4" -> "unknownid_4"
    [] s = "UnknownID" -> "unknownid"
    [] s = "Analisis Gemini tidak tersedia." -> "analisis gemini tidak tersedia."
    [] s = "ANALISIS GEMINI TIDAK TERSEDIA." -> "analisis gemini tidak tersedia."
    [] s = "Analisis Gemini diblokir." -> "analisis gemini diblokir."
    [] s = "File gambar tidak ditemukan untuk analisis." -> "file gambar tidak ditemukan untuk analisis."
    [] s = "Analisis Gemini tidak menghasilkan output yang diharapkan."
         -> "analisis gemini tidak menghasilkan output yang diharapkan."
    [] s = "Analisis Gagal: File gambar tidak ditemukan di path"
         -> "analisis gagal: file gambar tidak ditemukan di path"
    [] s = "Analisis Gemini AI diblokir: SAFETY. Tidak ada pesan detail."
         -> "analisis gemini ai diblokir: safety. tidak ada pesan detail."
    [] s = "Analisis Gemini AI tidak menghasilkan output yang diharapkan."
         -> "analisis gemini ai tidak menghasilkan output yang diharapkan."
    [] s = "Error saat berkomunikasi dengan Gemini AI: error"
         -> "error saat berkomunikasi dengan gemini ai: error"
    [] s = "Potensi bahaya tinggi." -> "potensi bahaya tinggi."
    [] OTHER -> s

\* mutant: a box whose class id has no name passes the label filter
KeepsBox_UnknownPass(label_raw) ==
  Lower(label_raw) \in AlertLabels \/ label_raw \in { UnknownName(id) : id \in BoxClassIds }

\* mutant: the label filter of detect() lets every box through
KeepsBox_NoFilter(label_raw) == TRUE

\* detect(): `if label_raw.lower() in ['fire', 'smoke']`
KeepsBox(label_raw) == Lower(label_raw) \in AlertLabels

RECURSIVE FilterBoxes(_)
FilterBoxes(boxes) ==
  IF boxes = << >> THEN << >>
  ELSE LET b == Head(boxes)
           rest == FilterBoxes(Tail(boxes))
       IN IF KeepsBox(LabelRaw(b.cls))
          THEN << [label |-> LabelRaw(b.cls), confidence |-> b.conf] >> \o rest
          ELSE rest

\* detect() with a loaded model and a 3-channel frame: the detections kept
Detect(boxes) == FilterBoxes(boxes)

\* lower-cased labels of the boxes detect() dropped
DroppedLabels(boxes) ==
  { Lower(LabelRaw(boxes[i].cls)) : i \in { j \in 1..Len(boxes) : ~KeepsBox(LabelRaw(boxes[j].cls)) } }

Boxes == [cls : BoxClassIds, conf : Confidences]
BoxLists == UNION { [1..n -> Boxes] : n \in 0..MaxBoxes }

\* frame_input.ndim and frame_input.shape[2] of the arrays detect() is given
FrameNdims == 1..4
FrameChannels == 1..5
\* model.predict: a results list, or an empty one
PredictOutcomes == {"results", "empty"}

\* mutant: a 2-D frame is turned away like any unsupported shape
ProcessedFrame_NoGray(ndim, channels) ==
  IF ndim = 3 /\ channels \in {3, 4} THEN 3 ELSE 0

\* detect(): the channels of processed_frame, 0 when the frame is turned away.
\* ndim 2 -> GRAY2BGR; ndim 3 with 4 channels -> BGRA2BGR, with 3 -> as is,
\* with any other count -> error logged and return; any other ndim -> return
ProcessedFrame(ndim, channels) ==
  IF ndim = 2 THEN 3
  ELSE IF ndim = 3
       THEN IF channels = 4 THEN 3
            ELSE IF channels = 3 THEN 3
            ELSE 0
       ELSE 0

\* detect(frame_input): `processed` boxes of the result are read before the
\* try block raises (all of them when it does not); its `except Exception`
\* logs and the function returns what it has
DetectFrame(model_loaded, ndim, channels, predict, boxes, processed) ==
  IF ~model_loaded
  THEN [objects |-> << >>, frame |-> "frame_input", fed |-> 0, raised |-> FALSE]
  ELSE IF ProcessedFrame(ndim, channels) # 3
  THEN [objects |-> << >>, frame |-> "frame_input", fed |-> 0, raised |-> FALSE]
  ELSE IF predict = "empty"
  THEN [objects |-> << >>, frame |-> "annotated_frame", fed |-> 3, raised |-> FALSE]
  ELSE [objects |-> Detect(SubSeq(boxes, 1, processed)), frame |-> "annotated_frame",
        fed |-> ProcessedFrame(ndim, channels), raised |-> FALSE]

\* ------------------------------------------------------ cooldown gate
\* dict.get(label, 0)
Get(m, label) == IF label \in DOMAIN m THEN m[label] ELSE 0

\* mutant: the comparison is >= instead of >
CanSendNotification_Geq(m, label, t, cooldown) == t - Get(m, label) >= cooldown

\* mutant: one gate for all labels, an alert of any label starts the cooldown
CanSendNotification_AnyLabel(m, label, t, cooldown) ==
  \A l \in DOMAIN m \cup {label} : t - Get(m, l) > cooldown

\* can_send_notification / the inline test of run.py
CanSendNotification(m, label, t, cooldown) == t - Get(m, label) > cooldown

\* mutant: the write replaces the map by the one entry
Put_Replace(m, label, t) == (label :> t)

\* m[label] = t
Put(m, label, t) == [l \in DOMAIN m \cup {label} |-> IF l = label THEN t ELSE m[l]]


\* ------------------------------------------------------------ analyzer
None == "None"
\* an exception leaves the called function
Raised == "raise"

ApiOutcomes == {"text", "blocked", "empty", "exception"}
AnalysisText == "Potensi bahaya tinggi."

\* mutant: an exception of the service call is not caught inside the analyzer
AnalyzeImageWithGemini_Uncaught(key_configured, file_exists, api) ==
  IF ~key_configured THEN "Analisis Gemini tidak tersedia."
  ELSE IF ~file_exists THEN "Analisis Gagal: File gambar tidak ditemukan di path"
  ELSE CASE api = "text" -> AnalysisText
         [] api = "blocked" -> "Analisis Gemini AI diblokir: SAFETY. Tidak ada pesan detail."
         [] api = "empty" -> "Analisis Gemini AI tidak menghasilkan output yang diharapkan."
         [] OTHER -> Raised

\* analyze_image_with_gemini: the string it returns
AnalyzeImageWithGemini(key_configured, file_exists, api) ==
  IF ~key_configured THEN "Analisis Gemini tidak tersedia."
  ELSE IF ~file_exists THEN "Analisis Gagal: File gambar tidak ditemukan di path"
  ELSE CASE api = "text" -> AnalysisText
         [] api = "blocked" -> "Analisis Gemini AI diblokir: SAFETY. Tidak ada pesan detail."
         [] api = "empty" -> "Analisis Gemini AI tidak menghasilkan output yang diharapkan."
         [] OTHER -> "Error saat berkomunikasi dengan Gemini AI: error"

\* ------------------------------------------------------------ notifier
\* A text is a sequence of tokens: a whitespace character, or a run of
\* characters without whitespace at either end.
WhiteSpace == {" ", "\n"}
\* the text argument that is Python's None
NoneText == << None >>
\* a str (or None) as a text
TextOf(str) == IF str = None THEN NoneText ELSE << str >>

RECURSIVE LStrip(_)
LStrip(t) ==
  IF t = << >> THEN << >>
  ELSE IF Head(t) \in WhiteSpace THEN LStrip(Tail(t)) ELSE t

RECURSIVE RStrip(_)
RStrip(t) ==
  IF t = << >> THEN << >>
  ELSE IF t[Len(t)] \in WhiteSpace THEN RStrip(SubSeq(t, 1, Len(t) - 1)) ELSE t

\* str.strip()
Strip(t) == RStrip(LStrip(t))
\* str.lower()
LowerText(t) == [i \in DOMAIN t |-> Lower(t[i])]
\* the truth value of an optional str
Truthy(t) == t # NoneText /\ t # << >>

\* str.capitalize() on the detection types that occur
Capitalize(s) ==
  CASE s \in {"fire", "Fire", "FIRE"} -> "Fire"
    [] s \in {"smoke", "Smoke", "SMOKE"} -> "Smoke"
    [] OTHER -> s

\* f"{confidence:.2f}" of a confidence given in hundredths
ConfidenceText(c) ==
  CASE c = 81 -> "0.81"
    [] c = 25 -> "0.25"
    [] OTHER -> "0.00"

\* the texts for which format_rich_notification_message leaves the analysis out
SentinelTexts ==
  { << "analisis gemini tidak tersedia." >>,
    << "file gambar tidak ditemukan untuk analisis." >>,
    << "analisis gemini tidak menghasilkan output yang diharapkan." >>,
    << "analisis gemini diblokir." >> }

ImageLabel == "Frame Deteksi: "
GeminiHeader == "Analisis & Saran Gemini AI"

\* title, confidence and timestamp lines (location, source and time are fixed)
MessageHead(det_type, confidence) ==
  << "LIVE ALERT! Terdeteksi ", Capitalize(det_type), " di lokasi dari sumber", "\n", "\n",
     "Kepercayaan: ", ConfidenceText(confidence), "\n", "Waktu Deteksi: ", "waktu" >>

\* mutant: the analysis is appended whenever it is not empty
FormatRichNotificationMessage_NoSentinels(det_type, confidence, gemini_text, imgur_link) ==
  Strip(MessageHead(det_type, confidence)
        \o (IF imgur_link \notin {None, ""}
            THEN << "\n", "\n", ImageLabel, imgur_link >> ELSE << >>)
        \o (IF Truthy(gemini_text)
            THEN << "\n", "\n", GeminiHeader, "\n" >> \o Strip(gemini_text) ELSE << >>))

\* mutant: the image line is written whether or not there is a link
FormatRichNotificationMessage_AlwaysLink(det_type, confidence, gemini_text, imgur_link) ==
  Strip(MessageHead(det_type, confidence)
        \o << "\n", "\n", ImageLabel, imgur_link >>
        \o (IF Truthy(gemini_text) /\ LowerText(Strip(gemini_text)) \notin SentinelTexts
            THEN << "\n", "\n", GeminiHeader, "\n" >> \o Strip(gemini_text) ELSE << >>))

\* format_rich_notification_message
FormatRichNotificationMessage(det_type, confidence, gemini_text, imgur_link) ==
  Strip(MessageHead(det_type, confidence)
        \o (IF imgur_link \notin {None, ""}
            THEN << "\n", "\n", ImageLabel, imgur_link >> ELSE << >>)
        \o (IF Truthy(gemini_text) /\ LowerText(Strip(gemini_text)) \notin SentinelTexts
            THEN << "\n", "\n", GeminiHeader, "\n" >> \o Strip(gemini_text) ELSE << >>))

\* outcome of one HTTP call: it succeeds, raises a requests RequestException
\* (HTTPError of raise_for_status included), or raises something else
HttpOutcomes == {"ok", "request_error", "other_error"}

\* mutant: the generic `except Exception` of send_telegram_notification is missing
SendTelegramNotification_NoCatchAll(creds, image_path, file_exists, upload_ok, primary, fallback) ==
  IF ~creds THEN [ret |-> "False", uploads |-> 0, requests |-> 0]
  ELSE LET up == IF image_path /\ file_exists THEN 1 ELSE 0
       IN CASE primary = "ok" -> [ret |-> "True", uploads |-> up, requests |-> 1]
            [] primary = "request_error" ->
                 [ret |-> IF fallback = "ok" THEN "True" ELSE "False", uploads |-> up, requests |-> 2]
            [] OTHER -> [ret |-> Raised, uploads |-> up, requests |-> 1]

\* mutant: a fallback that fails is sent once more
SendTelegramNotification_RetryFallback(creds, image_path, file_exists, upload_ok, primary, fallback) ==
  IF ~creds THEN [ret |-> "False", uploads |-> 0, requests |-> 0]
  ELSE LET up == IF image_path /\ file_exists THEN 1 ELSE 0
       IN CASE primary = "ok" -> [ret |-> "True", uploads |-> up, requests |-> 1]
            [] primary = "request_error" ->
                 [ret |-> IF fallback = "ok" THEN "True" ELSE "False", uploads |-> up,
                  requests |-> IF fallback = "ok" THEN 2 ELSE 3]
            [] OTHER -> [ret |-> "False", uploads |-> up, requests |-> 1]

\* send_telegram_notification.  The primary request is sendPhoto when the image
\* file exists and sendMessage otherwise; a RequestException of it leads to one
\* sendMessage fallback; any other exception returns False at once.
SendTelegramNotification(creds, image_path, file_exists, upload_ok, primary, fallback) ==
  IF ~creds THEN [ret |-> "False", uploads |-> 0, requests |-> 0]
  ELSE LET up == IF image_path /\ file_exists THEN 1 ELSE 0
       IN CASE primary = "ok" -> [ret |-> "True", uploads |-> up, requests |-> 1]
            [] primary = "request_error" ->
                 [ret |-> IF fallback = "ok" THEN "True" ELSE "False", uploads |-> up, requests |-> 2]
            [] OTHER -> [ret |-> "False", uploads |-> up, requests |-> 1]

\* mutant: the image is uploaded before the credentials are looked at
SendWhatsappNotification_UploadFirst(creds, image_path, file_exists, upload_ok, http) ==
  [ret |-> IF creds /\ http = "ok" THEN "True" ELSE "False",
   uploads |-> IF image_path /\ file_exists THEN 1 ELSE 0,
   requests |-> IF creds THEN 1 ELSE 0]

\* send_whatsapp_notification: one optional image-host upload, one gateway request
SendWhatsappNotification(creds, image_path, file_exists, upload_ok, http) ==
  IF ~creds THEN [ret |-> "False", uploads |-> 0, requests |-> 0]
  ELSE [ret |-> IF http = "ok" THEN "True" ELSE "False",
        uploads |-> IF image_path /\ file_exists THEN 1 ELSE 0,
        requests |-> 1]

\* ------------------------------------------------- temp file removal
RemoveOutcomes == {"ok", "permission", "other"}

\* what a call of attempt_remove_temp_file that never reaches os.remove does
NoRemoval == [removed |-> FALSE, calls |-> 0, sleeps |-> 0, raised |-> FALSE]

\* mutant: every error of os.remove is retried, not only PermissionError
RECURSIVE RemoveLoop_RetryAll(_, _, _)
RemoveLoop_RetryAll(outcomes, retries, max_retries) ==
  IF retries >= max_retries THEN NoRemoval
  ELSE LET o == outcomes[retries + 1]
       IN IF o = "ok" THEN [NoRemoval EXCEPT !.removed = TRUE, !.calls = 1]
          ELSE LET r == RemoveLoop_RetryAll(outcomes, retries + 1, max_retries)
               IN [r EXCEPT !.calls = r.calls + 1,
                            !.sleeps = r.sleeps + (IF retries + 1 < max_retries THEN 1 ELSE 0)]

\* the while loop of attempt_remove_temp_file from `retries` on: calls of
\* os.remove, calls of time.sleep, whether the file went and whether an
\* exception leaves the function
RECURSIVE RemoveLoop(_, _, _)
RemoveLoop(outcomes, retries, max_retries) ==
  IF retries >= max_retries THEN NoRemoval
  ELSE LET o == outcomes[retries + 1]
       IN IF o = "ok" THEN [NoRemoval EXCEPT !.removed = TRUE, !.calls = 1]
          ELSE IF o = "permission"
               THEN LET r == RemoveLoop(outcomes, retries + 1, max_retries)
                    IN [r EXCEPT !.calls = r.calls + 1,
                                 !.sleeps = r.sleeps + (IF retries + 1 < max_retries THEN 1 ELSE 0)]
               ELSE [NoRemoval EXCEPT !.calls = 1]

\* attempt_remove_temp_file / attempt_remove_temp_file_cli
AttemptRemoveTempFile(file_path, file_exists, outcomes, max_retries) ==
  IF ~file_path \/ ~file_exists THEN NoRemoval
  ELSE RemoveLoop(outcomes, 0, max_retries)


\* --------------------------------------------------------------- state
VARIABLES
  mode,                   \* "app" (Streamlit) or "cli" (run.py)
  notif_cooldown,         \* notif_cooldown / notification_cooldown_cli
  enable_telegram,        \* enable_telegram / enable_telegram_cli
  enable_whatsapp,        \* enable_whatsapp / enable_whatsapp_cli
  enable_gemini,          \* analyze_with_gemini / enable_gemini_cli
  configured,             \* services whose credentials the environment holds
  now,                    \* the clock time.time() reads
  last_notification_time, \* last_notification_time / last_notification_times_cli
  pc,                     \* position of the frame loop
  capture,                \* the cv2.VideoCapture: "closed", "opened", "released"
  processing_active,      \* st.session_state.processing_active (app only)
  dropped,                \* whether detect() dropped a box of the frame
  detected_objects,       \* detections of the frame not yet iterated
  label,                  \* label / label_detected of the dispatch in progress
  current_event_time,     \* time read by the cooldown check of that dispatch
  temp_path,              \* temp_annotated_img_path is set (not None)
  tmp_file,               \* the temp file of this dispatch: "none", "exists", "removed"
  gemini_result,          \* gemini_analysis_result
  cur,                    \* what the dispatch has done: see NoDispatch
  prev_attempt,           \* label and start time of the latest earlier dispatch attempt
  call                    \* one call of a function on its own: see NoCall

vars == << mode, notif_cooldown, enable_telegram, enable_whatsapp, enable_gemini,
           configured, now, last_notification_time, pc, capture, processing_active,
           dropped, detected_objects, label, current_event_time, temp_path, tmp_file,
           gemini_result, cur, prev_attempt, call >>

config == << mode, notif_cooldown, enable_telegram, enable_whatsapp, enable_gemini, configured >>

\* cur: start is the time the cooldown check read; prev the start of the latest
\* earlier attempt when that was for the same label; persist the outcome of the
\* persist step; trace the calls the dispatch made, in order; tg and wa what
\* each send returned ("none": not called); errors the errors reported.
NoDispatch ==
  [ active |-> FALSE, start |-> NoTime, prev |-> NoTime, persist |-> "none",
    trace |-> << >>, tg |-> "none", wa |-> "none", errors |-> 0 ]

NoAttempt == [label |-> None, start |-> NoTime]

\* call: the function called, its arguments and what it returned
NoCall == [fn |-> None, args |-> << >>, out |-> << >>]

\* The clock starts above the cooldown, as epoch seconds do, so that the first
\* check of a label (default 0) passes.
Epoch == notif_cooldown + 1
Horizon == Epoch + notif_cooldown + TimeSlack
\* seconds since the start of the run
Elapsed(t) == t - Epoch

\* st.session_state.whatsapp_configured, gemini_available / GEMINI_AVAILABLE_CLI
WhatsappConfigured == "whatsapp" \in configured
GeminiAvailable == "gemini" \in configured

\* The settings a run can start with.  In the app the WhatsApp and Gemini
\* checkboxes exist only when the service is configured.  The credentials of a
\* service whose flag is off are never read, so they are taken as present.
ConfigOk ==
  /\ mode \in Modes
  /\ enable_telegram \in BOOLEAN
  /\ enable_whatsapp \in BOOLEAN
  /\ enable_gemini \in BOOLEAN
  /\ configured \in SUBSET Services
  /\ mode = "app" => (enable_whatsapp => WhatsappConfigured) /\ (enable_gemini => GeminiAvailable)
  /\ ~enable_telegram => "telegram" \in configured
  /\ ~enable_whatsapp => "whatsapp" \in configured
  /\ ~enable_gemini => "gemini" \in configured

InitRun ==
  /\ now = Epoch
  /\ last_notification_time = << >>
  /\ pc = "open"
  /\ capture = "closed"
  /\ processing_active = TRUE
  /\ dropped = FALSE
  /\ detected_objects = << >>
  /\ label = None
  /\ current_event_time = NoTime
  /\ temp_path = FALSE
  /\ tmp_file = "none"
  /\ gemini_result = None
  /\ cur = NoDispatch
  /\ prev_attempt = NoAttempt

Init ==
  /\ notif_cooldown = DefaultCooldown
  /\ ConfigOk
  /\ InitRun
  /\ call = NoCall

\* ------------------------------------------------------------- actions
\* mutant: the frame loop is entered whether or not the source opened
AfterOpen_Ignore(opened) == "read"

\* `if not cap.isOpened(): ... return` (run.py), `... else: while ...` (app.py)
AfterOpen(opened) == IF opened THEN "read" ELSE "done"

\* mutant: the capture is not released when the loop ends
Release_Skipped(cap) == cap

\* cap.release() after the loop (app.py), in its finally block (run.py)
Release(cap) == IF cap = "opened" THEN "released" ELSE cap

\* mutant: the stop request is also honoured between two detections
StopPoints_InLoop == {"frame_end", "returned"}

\* the positions of the frame loop at which a stop request is looked at: the
\* while condition of app.py, cv2.waitKey / getWindowProperty of run.py
StopPoints == {"frame_end"}

\* mutant: a frame without detections clears the gates
OnNoDetections_Reset(m) == << >>

\* what the for statement does to the last-alert map when the list holds no
\* (further) detection: it has no iteration (app.py shows a message)
OnNoDetections(m) == m

\* mutant: an exception of the dispatch is not caught and ends the loop
AfterDispatch_Propagate(errors) == IF errors > 0 THEN "done" ELSE "returned"

\* where the loop is after the try / except Exception / finally of one
\* dispatch, given the number of exceptions the except block caught
AfterDispatch(errors) == "returned"

\* cv2.VideoCapture(source); isOpened()
OpenSource ==
  /\ pc = "open"
  /\ \E opened \in BOOLEAN :
       /\ pc' = AfterOpen(opened)
       /\ IF opened
          THEN /\ capture' = "opened"
               /\ UNCHANGED processing_active
          ELSE /\ capture' = "closed"
               /\ processing_active' = IF mode = "app" THEN FALSE ELSE processing_active
  /\ UNCHANGED call
  /\ UNCHANGED << config, now, last_notification_time, dropped, detected_objects, label,
                  current_event_time, temp_path, tmp_file, gemini_result, cur, prev_attempt >>

\* capture.read(), then detect() on the frame
ReadFrame ==
  /\ pc = "read"
  /\ \E ret \in BOOLEAN :
       IF ret
       THEN /\ \E boxes \in BoxLists :
                 /\ detected_objects' = Detect(boxes)
                 /\ dropped' = (DroppedLabels(boxes) # {})
            /\ pc' = "for"
            /\ UNCHANGED << capture, processing_active >>
       ELSE /\ pc' = "done"
            /\ capture' = Release(capture)
            /\ processing_active' = IF mode = "app" THEN FALSE ELSE processing_active
            /\ UNCHANGED << detected_objects, dropped >>
  /\ UNCHANGED call
  /\ UNCHANGED << config, now, last_notification_time, label, current_event_time,
                  temp_path, tmp_file, gemini_result, cur, prev_attempt >>

\* the test that starts a dispatch: app.py line 135, run.py line 143
EligibleIn(m, lab) ==
  IF m = "app"
  THEN lab \in AlertLabels /\ CanSendNotification(last_notification_time, lab, now, notif_cooldown)
  ELSE CanSendNotification(last_notification_time, lab, now, notif_cooldown)
Eligible(lab) == EligibleIn(mode, lab)

\* head of `for det in detected_objects` with the cooldown check
ForDetection ==
  /\ pc = "for"
  /\ IF detected_objects = << >>
     THEN /\ pc' = "frame_end"
          /\ last_notification_time' = OnNoDetections(last_notification_time)
          /\ UNCHANGED << detected_objects, label, current_event_time, cur, prev_attempt >>
     ELSE LET lab == Lower(Head(detected_objects).label)
          IN IF Eligible(lab)
             THEN /\ pc' = "dispatch"
                  /\ label' = lab
                  /\ current_event_time' = now
                  /\ cur' = [NoDispatch EXCEPT !.active = TRUE, !.start = now,
                                               !.prev = IF prev_attempt.label = lab
                                                        THEN prev_attempt.start ELSE NoTime]
                  /\ prev_attempt' = [label |-> lab, start |-> now]
                  /\ UNCHANGED << detected_objects, last_notification_time >>
             ELSE /\ pc' = "for"
                  /\ detected_objects' = Tail(detected_objects)
                  /\ UNCHANGED << label, current_event_time, cur, prev_attempt,
                                  last_notification_time >>
  /\ UNCHANGED call
  /\ UNCHANGED << config, now, capture, processing_active, dropped,
                  temp_path, tmp_file, gemini_result >>

\* outcome of the persist step: the temp file is written ("ok"); fromarray or
\* NamedTemporaryFile raises, no file on disk ("create_failed"); save raises
\* after NamedTemporaryFile has created the file ("save_failed")
PersistOutcomes == {"ok", "create_failed", "save_failed"}

\* what the collaborators can return when called
AnalysisReturns(key_configured, file_exists) ==
  { AnalyzeImageWithGemini(key_configured, file_exists, api) : api \in ApiOutcomes }

TelegramReturns(creds, image_path, file_exists) ==
  { SendTelegramNotification(creds, image_path, file_exists, u, p, f).ret :
      u \in BOOLEAN, p \in HttpOutcomes, f \in HttpOutcomes }

WhatsappReturns(creds, image_path, file_exists) ==
  { SendWhatsappNotification(creds, image_path, file_exists, u, h).ret :
      u \in BOOLEAN, h \in HttpOutcomes }

RemoveResultsSet(present) ==
  { AttemptRemoveTempFile(present, present, o, MaxRetries) :
      o \in [1..MaxRetries -> RemoveOutcomes] }
RemoveResultsPresent == RemoveResultsSet(TRUE)
RemoveResultsAbsent == RemoveResultsSet(FALSE)
RemoveResults(file_path, file_exists) ==
  IF file_path /\ file_exists THEN RemoveResultsPresent ELSE RemoveResultsAbsent

\* app.py line 178, run.py line 181
WhatsappWantedIn(m) ==
  IF m = "app" THEN enable_whatsapp /\ WhatsappConfigured ELSE enable_whatsapp
WhatsappWanted == WhatsappWantedIn(mode)

\* mutant: a failure to persist the frame is swallowed and the dispatch goes on
AfterPersist_Swallow(outcome) == "analysis"

\* where the try block goes after the persist step
AfterPersist(outcome) == IF outcome = "ok" THEN "analysis" ELSE "except"

\* mutant: a send that returns False ends the try block
AfterTelegram_StopOnFalse(tg) == IF tg \in {Raised, "False"} THEN "except" ELSE "whatsapp"

\* where the try block goes after the Telegram step
AfterTelegram(tg) == IF tg = Raised THEN "except" ELSE "whatsapp"

\* mutant: the gate is written only when a channel delivered
AfterSends_OnlyDelivered(tg, wa) == IF tg = "True" \/ wa = "True" THEN "update" ELSE "finally"

\* the statement after the two sends: the write of the gate
AfterSends(tg, wa) == "update"

\* app.py line 152, run.py line 160 (the path is tested in DispatchRun)
AnalysisWanted == enable_gemini /\ GeminiAvailable

\* One dispatch, statement by statement: the try block (persist; analysis;
\* message; Telegram; WhatsApp; gate), except, finally.  The first three
\* arguments are the conditions of the three `if`s; a, tg, wa and rm are what
\* the analyzer, the sends and the removal return if they are called.
DispatchRun(analysis_on, telegram_on, whatsapp_on, outcome, a, tg, wa, rm) ==
  LET path == outcome = "ok"
      s1 == AfterPersist(outcome)
      a_called == s1 = "analysis" /\ analysis_on /\ path
      a_ret == IF a_called THEN a ELSE None
      s2 == IF s1 = "except" \/ a_ret = Raised THEN "except" ELSE "telegram"
      tg_called == s2 = "telegram" /\ telegram_on
      tg_ret == IF tg_called THEN tg ELSE "none"
      s3 == IF s2 = "except" THEN "except" ELSE AfterTelegram(tg_ret)
      wa_called == s3 = "whatsapp" /\ whatsapp_on
      wa_ret == IF wa_called THEN wa ELSE "none"
      s4 == IF s3 = "except" \/ wa_ret = Raised THEN "except" ELSE AfterSends(tg_ret, wa_ret)
      rm_res == IF path THEN rm ELSE NoRemoval
  IN [ persist |-> outcome,
       path |-> path,
       on_disk |-> outcome # "create_failed",
       analysis |-> IF a_ret = Raised THEN None ELSE a_ret,
       tg |-> tg_ret,
       wa |-> wa_ret,
       gate |-> s4 = "update",
       errors |-> IF s4 = "except" THEN 1 ELSE 0,
       removed |-> rm_res.removed,
       trace |-> << "persist" >>
                 \o (IF a_called THEN << "analyze" >> ELSE << >>)
                 \o (IF tg_called THEN << "telegram" >> ELSE << >>)
                 \o (IF wa_called THEN << "whatsapp" >> ELSE << >>)
                 \o (IF s4 = "update" THEN << "gate" >> ELSE << >>)
                 \o (IF s4 = "except" THEN << "error" >> ELSE << >>)
                 \o (IF rm_res.calls > 0 THEN << "remove" >> ELSE << >>) ]

\* the time the gate is set to: update_notification_time reads the clock again,
\* run.py stores the time its check read
GateTimeIn(m, t_update) == IF m = "app" THEN t_update ELSE current_event_time
GateTime(t_update) == GateTimeIn(mode, t_update)

\* the settings one dispatch reads: the conditions of its three `if`s and the
\* credentials the two sends find
DispatchSettings ==
  [ analysis : BOOLEAN, telegram : BOOLEAN, telegram_creds : BOOLEAN,
    whatsapp : BOOLEAN, whatsapp_creds : BOOLEAN ]

\* every result one dispatch can have under each setting, over what its
\* collaborators return
DispatchTable ==
  [ c \in DispatchSettings |->
      { DispatchRun(c.analysis, c.telegram, c.whatsapp, outcome, a, tg, wa, rm) :
          outcome \in PersistOutcomes,
          a \in AnalysisReturns(TRUE, TRUE),
          tg \in TelegramReturns(c.telegram_creds, TRUE, TRUE),
          wa \in WhatsappReturns(c.whatsapp_creds, TRUE, TRUE),
          rm \in RemoveResults(TRUE, TRUE) } ]

\* every result the dispatch of this run can have
DispatchResults ==
  DispatchTable[[ analysis |-> AnalysisWanted, telegram |-> enable_telegram,
                  telegram_creds |-> "telegram" \in configured,
                  whatsapp |-> WhatsappWanted, whatsapp_creds |-> WhatsappConfigured ]]

\* the body of `if ... can_send_notification(...)`: one dispatch, which takes d
\* seconds up to the write of the gate
Dispatch ==
  /\ pc = "dispatch"
  /\ \E r \in DispatchResults, d \in DispatchDurations :
       /\ now + d <= Horizon
       /\ now' = now + d
       /\ last_notification_time' =
            IF r.gate THEN Put(last_notification_time, label, GateTime(now + d))
            ELSE last_notification_time
       /\ temp_path' = r.path
       /\ tmp_file' = IF ~r.on_disk THEN "none"
                      ELSE IF r.removed THEN "removed" ELSE "exists"
       /\ gemini_result' = r.analysis
       /\ cur' = [cur EXCEPT !.persist = r.persist, !.trace = r.trace,
                             !.tg = r.tg, !.wa = r.wa, !.errors = r.errors]
       /\ pc' = AfterDispatch(r.errors)
  /\ UNCHANGED call
  /\ UNCHANGED << config, capture, processing_active, dropped, detected_objects, label,
                  current_event_time, prev_attempt >>

\* mutant: the path of the last dispatch is still held when the next begins
InitialTempPath_Stale(path) == path

\* `temp_annotated_img_path = None` before the try block of a dispatch
InitialTempPath(path) == FALSE

\* the dispatch is over: on to the next detection of the frame
NextDetection ==
  /\ pc = "returned"
  /\ pc' = "for"
  /\ detected_objects' = Tail(detected_objects)
  /\ label' = None
  /\ current_event_time' = NoTime
  /\ temp_path' = InitialTempPath(temp_path)
  /\ tmp_file' = "none"
  /\ gemini_result' = None
  /\ cur' = NoDispatch
  /\ UNCHANGED call
  /\ UNCHANGED << config, now, last_notification_time, capture, processing_active, dropped,
                  prev_attempt >>

\* end of the loop body: the stop test (Stop button; q, ESC or closed window)
FrameEnd ==
  /\ pc \in StopPoints
  /\ dropped' = FALSE
  /\ \E stop \in BOOLEAN :
       IF stop
       THEN /\ pc' = "done"
            /\ capture' = Release(capture)
            /\ processing_active' = IF mode = "app" THEN FALSE ELSE processing_active
       ELSE /\ pc = "frame_end"
            /\ pc' = "read"
            /\ UNCHANGED << capture, processing_active >>
  /\ UNCHANGED call
  /\ UNCHANGED << config, now, last_notification_time, detected_objects, label,
                  current_event_time, temp_path, tmp_file, gemini_result, cur, prev_attempt >>

\* time passes before the clock is read by the next cooldown check
Tick ==
  /\ pc = "for"
  /\ \E d \in TickSteps :
       /\ now + d <= Horizon
       /\ now' = now + d
  /\ UNCHANGED call
  /\ UNCHANGED << config, last_notification_time, pc, capture, processing_active, dropped,
                  detected_objects, label, current_event_time, temp_path, tmp_file,
                  gemini_result, cur, prev_attempt >>

Next ==
  \/ OpenSource
  \/ ReadFrame
  \/ ForDetection
  \/ Dispatch
  \/ NextDetection
  \/ FrameEnd
  \/ Tick

Spec == Init /\ [][Next]_vars

\* ------------------------------------------- the functions on their own
\* Each function of notifier.py, gemini_analyzer.py and app.py / run.py that a
\* dispatch calls, called once per step on arguments drawn from the values
\* it can be given; the frame loop stands still.
run_state == << mode, notif_cooldown, enable_telegram, enable_whatsapp, enable_gemini,
               configured, now, last_notification_time, pc, capture, processing_active,
               dropped, detected_objects, label, current_event_time, temp_path, tmp_file,
               gemini_result, cur, prev_attempt >>

InitCalls ==
  /\ notif_cooldown = DefaultCooldown
  /\ mode = "cli"
  /\ enable_telegram = TRUE /\ enable_whatsapp = TRUE /\ enable_gemini = TRUE
  /\ configured = Services
  /\ InitRun
  /\ call = NoCall

\* every str analyze_image_with_gemini can return
AnalyzerResults ==
  { AnalyzeImageWithGemini(k, f, api) : k \in BOOLEAN, f \in BOOLEAN, api \in ApiOutcomes }
AnalyzerFailures == AnalyzerResults \ {AnalysisText}

\* the analysis texts a message is composed with
ComposeTexts ==
  {NoneText, << >>, << " " >>, << "\n", " " >>}
    \cup { TextOf(r) : r \in AnalyzerResults }
    \cup SentinelTexts
    \cup { << " ", w, "\n" >> :
             w \in {AnalysisText, "Analisis Gemini tidak tersedia.", "analisis gemini diblokir."} }
    \cup { << w >> :
             w \in {"ANALISIS GEMINI TIDAK TERSEDIA.", "Analisis Gemini diblokir.",
                    "File gambar tidak ditemukan untuk analisis.",
                    "Analisis Gemini tidak menghasilkan output yang diharapkan."} }
ImageUrl == "https://i.imgur.com/frame.jpg"
ComposeLinks == {None, "", ImageUrl}

\* what imgur_client_notifier.upload_from_path does: a link, or one of the
\* three exceptions upload_to_imgur catches
UploadOutcomes == {"ok", "rate_limit", "client_error", "other"}

\* upload_to_imgur: no client or no file -> None without a request; otherwise
\* one upload, the link or None
UploadToImgur(client_configured, file_exists, outcome) ==
  IF ~client_configured THEN [link |-> None, requests |-> 0]
  ELSE IF ~file_exists THEN [link |-> None, requests |-> 0]
  ELSE [link |-> IF outcome = "ok" THEN ImageUrl ELSE None, requests |-> 1]

\* analyze_image_with_gemini: the calls of generate_content it makes; the two
\* early returns (no key or model, no file) come before it
GenerateContentCalls(key_configured, file_exists) ==
  IF ~key_configured THEN 0
  ELSE IF ~file_exists THEN 0
  ELSE 1

CallCompose ==
  /\ call = NoCall
  /\ \E d \in {"Fire", "Smoke"}, c \in Confidences, t \in ComposeTexts, l \in ComposeLinks :
       call' = [ fn |-> "compose",
                 args |-> [det_type |-> d, confidence |-> c, gemini_text |-> t, link |-> l],
                 out |-> FormatRichNotificationMessage(d, c, t, l) ]
  /\ UNCHANGED run_state

\* attempt_remove_temp_file(file_path, max_retries) on a path that is empty or
\* not, a file that exists or not and what each os.remove in turn does
CallRemove ==
  /\ call = NoCall
  /\ \E fp \in BOOLEAN, fe \in BOOLEAN, n \in 1..MaxRetries,
        o \in [1..MaxRetries -> RemoveOutcomes] :
       call' = [ fn |-> "remove",
                 args |-> [file_path |-> fp, file_exists |-> fe, max_retries |-> n, outcomes |-> o],
                 out |-> AttemptRemoveTempFile(fp, fe, o, n) ]
  /\ UNCHANGED run_state

\* send_telegram_notification with or without credentials, image path and
\* image file, and over what the upload and the HTTP requests do
CallTelegram ==
  /\ call = NoCall
  /\ \E cr \in BOOLEAN, ip \in BOOLEAN, fe \in BOOLEAN, u \in BOOLEAN,
        p \in HttpOutcomes, f \in HttpOutcomes :
       call' = [ fn |-> "telegram",
                 args |-> [creds |-> cr, image_path |-> ip, file_exists |-> fe,
                           upload_ok |-> u, primary |-> p, fallback |-> f],
                 out |-> SendTelegramNotification(cr, ip, fe, u, p, f) ]
  /\ UNCHANGED run_state

\* send_whatsapp_notification, likewise
CallWhatsapp ==
  /\ call = NoCall
  /\ \E cr \in BOOLEAN, ip \in BOOLEAN, fe \in BOOLEAN, u \in BOOLEAN, h \in HttpOutcomes :
       call' = [ fn |-> "whatsapp",
                 args |-> [creds |-> cr, image_path |-> ip, file_exists |-> fe,
                           upload_ok |-> u, primary |-> h, fallback |-> "other_error"],
                 out |-> SendWhatsappNotification(cr, ip, fe, u, h) ]
  /\ UNCHANGED run_state

\* upload_to_imgur with the client configured or not
CallUpload ==
  /\ call = NoCall
  /\ \E cl \in BOOLEAN, fe \in BOOLEAN, o \in UploadOutcomes :
       call' = [ fn |-> "upload",
                 args |-> [client_configured |-> cl, file_exists |-> fe, outcome |-> o],
                 out |-> UploadToImgur(cl, fe, o) ]
  /\ UNCHANGED run_state

\* analyze_image_with_gemini with the key configured or not
CallAnalyze ==
  /\ call = NoCall
  /\ \E k \in BOOLEAN, fe \in BOOLEAN, api \in ApiOutcomes :
       call' = [ fn |-> "analyze",
                 args |-> [key_configured |-> k, file_exists |-> fe, api |-> api],
                 out |-> [ text |-> AnalyzeImageWithGemini(k, fe, api),
                           requests |-> GenerateContentCalls(k, fe) ] ]
  /\ UNCHANGED run_state

\* one dispatch under each setting of its three `if`s and of the credentials
\* its sends find
CallDispatch ==
  /\ call = NoCall
  /\ \E c \in DispatchSettings :
       \E r \in DispatchTable[c] :
         call' = [fn |-> "dispatch", args |-> c, out |-> r]
  /\ UNCHANGED run_state

\* detect() on a frame of any shape, with the model loaded or not, over what
\* predict returns and how far the result is read
CallDetect ==
  /\ call = NoCall
  /\ \E ml \in BOOLEAN, nd \in FrameNdims, ch \in FrameChannels, pr \in PredictOutcomes,
        boxes \in BoxLists :
       \E k \in 0..Len(boxes) :
         call' = [ fn |-> "detect",
                   args |-> [model_loaded |-> ml, ndim |-> nd, channels |-> ch,
                             predict |-> pr, boxes |-> boxes, processed |-> k],
                   out |-> DetectFrame(ml, nd, ch, pr, boxes, k) ]
  /\ UNCHANGED run_state

\* the called function has returned to its caller
CallReturns ==
  /\ call # NoCall
  /\ call' = NoCall
  /\ UNCHANGED run_state

NextCalls ==
  \/ CallCompose
  \/ CallRemove
  \/ CallTelegram
  \/ CallWhatsapp
  \/ CallDetect
  \/ CallUpload
  \/ CallAnalyze
  \/ CallDispatch
  \/ CallReturns

SpecCalls == InitCalls /\ [][NextCalls]_vars

\* ------------------------------------------------------------- claims
Returned == pc = "returned"
InTrace(e) == \E i \in DOMAIN cur.trace : cur.trace[i] = e
Count(e) == Cardinality({ i \in DOMAIN cur.trace : cur.trace[i] = e })
HeadLabel == Lower(Head(detected_objects).label)

\* C1: two dispatch attempts for one label that start no more than the
\* cooldown apart: the later one invokes no notification channel.
C1_NoChannelWithinCooldown ==
  (cur.active /\ cur.prev # NoTime /\ cur.prev < cur.start
     /\ cur.start - cur.prev <= notif_cooldown)
  => (cur.tg = "none" /\ cur.wa = "none")

\* C2: cooldown 10, empty map.  A fire dispatch that starts at t=0 records the
\* gate as t=0; a fire detection at t=5 after it does not dispatch; a fire
\* detection at t=11 after it dispatches again.
C2_Scenario ==
  notif_cooldown = 10 =>
    /\ (Returned /\ label = "fire" /\ Elapsed(cur.start) = 0 /\ InTrace("gate"))
         => last_notification_time["fire"] = cur.start
    /\ (pc = "dispatch" /\ label = "fire" /\ Elapsed(cur.start) = 5
          /\ "fire" \in DOMAIN last_notification_time)
         => Elapsed(cur.prev) # 0
    /\ (pc = "for" /\ detected_objects # << >> /\ HeadLabel = "fire" /\ Elapsed(now) = 11
          /\ prev_attempt = [label |-> "fire", start |-> Epoch]
          /\ "fire" \in DOMAIN last_notification_time)
         => Eligible("fire")

\* C3: the cooldown check passes exactly when now - last.get(label, 0) >
\* cooldown, and it leaves the last-alert map as it was.
C3_CheckIsPureAndStrict ==
  [][ (pc = "for" /\ detected_objects # << >> /\ now' = now)
      => /\ last_notification_time' = last_notification_time
         /\ (pc' = "dispatch")
              = (now - (IF HeadLabel \in DOMAIN last_notification_time
                        THEN last_notification_time[HeadLabel] ELSE 0) > notif_cooldown) ]_vars

\* a check made exactly one cooldown after the recorded time (it fails)
C3_Witness ==
  /\ pc = "for" /\ detected_objects # << >>
  /\ HeadLabel \in DOMAIN last_notification_time
  /\ now - last_notification_time[HeadLabel] = notif_cooldown

\* C4: a label other than fire and smoke never starts a dispatch: no temp
\* file, no analysis, no send for it, and it is never a key of the map.
C4_OnlyAlertLabelsDispatch ==
  /\ DOMAIN last_notification_time \subseteq AlertLabels
  /\ (cur.active \/ tmp_file # "none" \/ cur.trace # << >>) => label \in AlertLabels
  /\ prev_attempt.label \in AlertLabels \cup {None}

\* the command-line loop has gone through a frame of which detect() dropped a box
C4_Witness == mode = "cli" /\ pc = "frame_end" /\ dropped /\ detected_objects = << >>

\* C5: with both channels on, a Telegram send that fails does not keep the
\* WhatsApp send from being made, and the gate is recorded.
C5_TelegramFailureIsolated ==
  (Returned /\ enable_telegram /\ WhatsappWanted /\ cur.tg \in {"False", Raised})
  => (InTrace("whatsapp") /\ InTrace("gate") /\ label \in DOMAIN last_notification_time)

C5_Witness == Returned /\ cur.tg = "False" /\ cur.wa = "True" /\ InTrace("gate")

\* C6: when a dispatch returns, the temp file it created has had its removal
\* attempted.
C6_TempFileRemovalAttempted ==
  (Returned /\ tmp_file # "none") => InTrace("remove")

\* C7: a dispatch whose persist step fails calls neither the analyzer nor a
\* channel, reports the error, and the loop goes on to the next detection.
C7_PersistFailureAborts ==
  (Returned /\ cur.persist # "ok")
  => /\ ~InTrace("analyze") /\ cur.tg = "none" /\ cur.wa = "none"
     /\ cur.errors = 1
     /\ capture = "opened" /\ ENABLED NextDetection

C7_Witness ==
  Returned /\ cur.persist = "save_failed" /\ enable_telegram /\ WhatsappWanted /\ enable_gemini

\* C8: a dispatch whose persist step fails still records the gate of its label.
C8_PersistFailureGates ==
  (Returned /\ cur.persist # "ok")
  => (label \in DOMAIN last_notification_time /\ last_notification_time[label] >= cur.start)

\* C9: a dispatch that persisted its frame writes the gate exactly once, after
\* the analysis call and after every send, whatever these returned.
C9_GateOnceAfterSends ==
  (Returned /\ cur.persist = "ok")
  => /\ Count("gate") = 1
     /\ \A i, j \in DOMAIN cur.trace :
          (cur.trace[i] = "gate" /\ cur.trace[j] \in {"persist", "analyze", "telegram", "whatsapp"})
          => j < i
     /\ label \in DOMAIN last_notification_time
     /\ last_notification_time[label] = GateTime(now)

C9_Witness ==
  Returned /\ cur.persist = "ok" /\ cur.tg = "False" /\ cur.wa = "False"
    /\ gemini_result \notin {None, AnalysisText}

\* C10: with analysis switched on, an analyzer that fails, is blocked, gives
\* no text or is unavailable does not abort the dispatch: every enabled
\* channel is invoked and the gate is recorded.
C10_AnalysisFailureDegrades ==
  (Returned /\ cur.persist = "ok" /\ enable_gemini
     /\ (~GeminiAvailable \/ (InTrace("analyze") /\ gemini_result # AnalysisText)))
  => /\ enable_telegram => InTrace("telegram")
     /\ WhatsappWanted => InTrace("whatsapp")
     /\ InTrace("gate") /\ label \in DOMAIN last_notification_time

C10_Witness ==
  Returned /\ InTrace("analyze") /\ InTrace("telegram") /\ InTrace("whatsapp")
    /\ gemini_result = "Analisis Gemini AI diblokir: SAFETY. Tidak ada pesan detail."

\* ------------------------------------------- claims on the functions
Composed == call.fn = "compose"
HasToken(t, tok) == \E i \in DOMAIN t : t[i] = tok
\* the text t has the labeled analysis section, which holds `body` trimmed
HasAnalysisSection(t, body) ==
  \E i \in DOMAIN t :
    /\ t[i] = GeminiHeader
    /\ Strip(SubSeq(t, i + 1, Len(t))) = Strip(body)
\* t without the n tokens from position i on
RemoveAt(t, i, n) == SubSeq(t, 1, i - 1) \o SubSeq(t, i + n, Len(t))

\* C11: a message composed with a non-success result of the analyzer has no
\* analysis section and does not carry the result.
C11_FailureTextAbsent ==
  (Composed /\ call.args.gemini_text \in { TextOf(r) : r \in AnalyzerFailures })
  => /\ ~HasToken(call.out, GeminiHeader)
     /\ \A i \in DOMAIN call.args.gemini_text : ~HasToken(call.out, call.args.gemini_text[i])

\* the sentinels as written, in lower case and in sentence case
C12_ExactSentinels ==
  SentinelTexts \cup
  { << "Analisis Gemini tidak tersedia." >>, << "Analisis Gemini diblokir." >>,
    << "File gambar tidak ditemukan untuk analisis." >>,
    << "Analisis Gemini tidak menghasilkan output yang diharapkan." >> }

\* C12 as stated: the analysis section is left out when the text is absent,
\* empty or equal to a sentinel; every other text, one that differs from a
\* sentinel only in letter case or surrounding whitespace included, is in the
\* output in a labeled section, trimmed.
C12_AsStated ==
  Composed =>
    LET t == call.args.gemini_text
    IN IF t = NoneText \/ t = << >> \/ t \in C12_ExactSentinels
       THEN ~HasToken(call.out, GeminiHeader)
       ELSE HasAnalysisSection(call.out, t)

\* C12 amended: the analysis section is left out when the text is absent,
\* empty or, trimmed and lower-cased, equal to one of the four sentinels; every
\* other text, whitespace-only text included, is in the output in a labeled
\* section, trimmed.
C12_SentinelsUpToCaseAndSpace ==
  Composed =>
    LET t == call.args.gemini_text
        trimmed == Strip(t)
        lowered == [i \in DOMAIN trimmed |-> Lower(trimmed[i])]
    IN IF t = NoneText \/ t = << >> \/ lowered \in SentinelTexts
       THEN ~HasToken(call.out, GeminiHeader)
       ELSE HasAnalysisSection(call.out, t)

\* an analysis with whitespace around it is in the message, trimmed
C12_Witness ==
  /\ Composed /\ call.args.gemini_text = << " ", AnalysisText, "\n" >>
  /\ HasAnalysisSection(call.out, << AnalysisText >>)

\* C13: without an image URL the output has no image line; with one it has
\* exactly one, carrying the URL, and the output is otherwise the one composed
\* without the URL.
C13_ImageLine ==
  Composed =>
    LET a == call.args
        at == { i \in DOMAIN call.out : call.out[i] = ImageLabel }
    IN IF a.link \in {None, ""}
       THEN at = {}
       ELSE /\ Cardinality(at) = 1
            /\ \A i \in at :
                 /\ i > 2 /\ i < Len(call.out) /\ call.out[i + 1] = a.link
                 /\ call.out[i - 1] = "\n"
                 /\ RemoveAt(call.out, i - 2, 4)
                      = FormatRichNotificationMessage(a.det_type, a.confidence, a.gemini_text, None)

C13_Witness ==
  Composed /\ call.args.link = ImageUrl /\ HasToken(call.out, GeminiHeader)
    /\ HasToken(call.out, ImageLabel)

\* C14: attempt_remove_temp_file calls os.remove at most max_retries times and
\* returns: it stops at the first removal that succeeds, goes on only after a
\* PermissionError, sleeping between two attempts and not after the last, gives
\* up at the first other error, raises nothing, and does nothing for an empty
\* path or a file that is not there.
C14_BoundedRemoval ==
  call.fn = "remove" =>
    LET a == call.args
        r == call.out
        n == a.max_retries
        stops == { i \in 1..n : a.outcomes[i] # "permission" }
        last == IF stops = {} THEN n ELSE CHOOSE i \in stops : \A k \in stops : i <= k
    IN /\ ~r.raised
       /\ r.calls <= n
       /\ IF ~a.file_path \/ ~a.file_exists
          THEN r.calls = 0 /\ r.sleeps = 0 /\ ~r.removed
          ELSE /\ r.calls = last
               /\ r.removed = (a.outcomes[last] = "ok")
               /\ r.sleeps = Cardinality({ i \in 1..last : a.outcomes[i] = "permission" /\ i < n })

\* the file is busy twice and goes at the third and last attempt
C14_Witness ==
  /\ call.fn = "remove" /\ call.args.max_retries = MaxRetries
  /\ call.out.calls = MaxRetries /\ call.out.sleeps = MaxRetries - 1 /\ call.out.removed

\* C15: each send returns a boolean and raises nothing; it returns True only
\* when one of its HTTP sends succeeded, and False when none did (missing
\* credentials included).
C15_SendsReturnBoolean ==
  call.fn \in {"telegram", "whatsapp"} =>
    LET a == call.args
        tries_fallback == call.fn = "telegram"
    IN /\ call.out.ret \in {"True", "False"}
       /\ call.out.ret = "True"
            => a.creds /\ (a.primary = "ok" \/ (tries_fallback /\ a.fallback = "ok"))
       /\ (~a.creds \/ (a.primary # "ok" /\ (tries_fallback => a.fallback # "ok")))
            => call.out.ret = "False"

\* an exception that is no RequestException, raised by the photo send, ends
\* in False
C15_Witness ==
  /\ call.fn = "telegram" /\ call.args.creds /\ call.args.image_path /\ call.args.file_exists
  /\ call.args.primary = "other_error" /\ call.out.ret = "False"

\* ------------------------------------------- claims on the frame loop
\* C16: whatever fails inside a dispatch, the dispatch returns to the for
\* loop, which goes on with the remaining detections of the frame, and the
\* loop ends only where the source is opened, a frame is read or a stop
\* request is looked at.
C16_FailureKeepsLoopGoing ==
  [][ /\ pc = "dispatch" => pc' = "returned" /\ capture' = "opened"
      /\ pc = "returned"
           => /\ pc' = "for" /\ detected_objects' = Tail(detected_objects)
              /\ capture' = "opened" /\ processing_active' = processing_active
      /\ (pc = "for" /\ detected_objects = << >>) => pc' \in {"for", "frame_end"}
      /\ (pc' = "done" /\ pc # "done") => pc \in {"open", "read", "frame_end"} ]_vars

\* a dispatch whose save raised, leaving its file behind, has returned with a
\* detection of the frame still to go
C16_Witness ==
  /\ Returned /\ Len(detected_objects) > 1
  /\ cur.errors = 1 /\ tmp_file = "exists"

\* C17: when the loop has ended after the source was opened, the capture is
\* released and, in the app, processing_active is false.
C17_LoopEndReleases ==
  pc = "done" =>
    /\ capture # "opened"
    /\ mode = "app" => ~processing_active

\* the app's loop has ended after at least one dispatch
C17_Witness ==
  pc = "done" /\ mode = "app" /\ capture = "released" /\ last_notification_time # << >>

\* C18: a source that cannot be opened: the loop never starts (no frame is
\* read, no detection, no dispatch, the map as it was) and, in the app,
\* processing_active is false.
C18_OpenFailureStartsNothing ==
  capture = "closed" =>
    /\ pc \in {"open", "done"}
    /\ last_notification_time = << >> /\ detected_objects = << >> /\ ~dropped
    /\ cur = NoDispatch /\ prev_attempt = NoAttempt /\ tmp_file = "none"
    /\ (pc = "done" /\ mode = "app") => ~processing_active

C18_Witness == pc = "done" /\ capture = "closed" /\ mode = "app" /\ ~processing_active

\* C19: a frame is read, and the loop is ended, only when every detection of
\* the frame before has been iterated and no dispatch is in progress.
C19_OneFrameAtATime ==
  pc \in {"read", "done"} =>
    /\ detected_objects = << >>
    /\ ~cur.active /\ label = None /\ tmp_file = "none"

\* the loop is at the read of a further frame, after a frame with a dispatch
C19_Witness ==
  pc = "read" /\ prev_attempt # NoAttempt /\ last_notification_time # << >>

\* C20: with no detection (left) in the list the for loop starts no dispatch,
\* reads no clock for a check and leaves the map as it is; the loop goes to
\* the end of the frame.
C20_EmptyListDoesNothing ==
  [][ (pc = "for" /\ detected_objects = << >> /\ now' = now)
      => /\ pc' = "frame_end"
         /\ last_notification_time' = last_notification_time
         /\ cur' = cur /\ prev_attempt' = prev_attempt
         /\ current_event_time' = current_event_time /\ tmp_file' = tmp_file ]_vars

\* the end of a frame in which the detector found nothing, with a gate set
\* by a frame before
C20_Witness ==
  pc = "frame_end" /\ ~dropped /\ last_notification_time # << >>
    /\ now - prev_attempt.start <= notif_cooldown /\ prev_attempt.start < now
    /\ mode = "app"

\* ---------------------------------------------------------------- C21
DetectCalled == call.fn = "detect"
\* the frame is of a shape detect() converts: 2-D, or 3-D with 3 or 4 channels
Convertible ==
  \/ call.args.ndim = 2
  \/ call.args.ndim = 3 /\ call.args.channels \in {3, 4}
TurnedAway == call.out.objects = << >> /\ call.out.frame = "frame_input" /\ call.out.fed = 0

OtherEntriesKept(lab) ==
  \A l \in (DOMAIN last_notification_time \cup DOMAIN last_notification_time') \ {lab} :
    /\ l \in DOMAIN last_notification_time
    /\ l \in DOMAIN last_notification_time'
    /\ last_notification_time'[l] = last_notification_time[l]

\* C22: the last-alert map is changed only by a dispatch. No step outside one
\* (a frame with no detections, a detection with a label that does not
\* qualify, a qualifying detection in cooldown, the end of a frame, the
\* passing of time) changes any entry, and the dispatch for a label changes at
\* most the entry of that label.
C22_OnlyDispatchWritesGate ==
  [][ /\ pc # "dispatch" => last_notification_time' = last_notification_time
      /\ pc = "dispatch" => OtherEntriesKept(label) ]_vars

\* a dispatch has written the entry of its label while the map holds an entry
\* for another label
C22_Witness ==
  /\ Returned /\ InTrace("gate")
  /\ label \in DOMAIN last_notification_time
  /\ \E l \in DOMAIN last_notification_time : l # label

\* ---------------------------------------------------------------- C23
\* the calls of a dispatch that are given the path of its temp file
PathUses == {"analyze", "telegram", "whatsapp"}
UsesPath == \E i \in DOMAIN cur.trace : cur.trace[i] \in PathUses

\* C23: the path of the temp file is handed to the analysis and to the sends
\* only before the cleanup step of the dispatch that made it: every such call
\* comes before the removal, follows the persist step of the same dispatch
\* (each dispatch makes its own file), and once the dispatch is over no path
\* is held: the next detection, dispatch or frame starts without one.
C23_PathUsedOnlyBeforeCleanup ==
  /\ Returned =>
       /\ \A i, j \in DOMAIN cur.trace :
            cur.trace[i] \in PathUses /\ cur.trace[j] = "remove" => i < j
       /\ \A i \in DOMAIN cur.trace : cur.trace[i] \in PathUses => i > 1
       /\ UsesPath => cur.trace[1] = "persist" /\ cur.persist = "ok" /\ temp_path
  /\ ~Returned => ~temp_path /\ tmp_file = "none"

\* a dispatch handed its file to a send and then removed it, and an earlier
\* attempt was made for the same label
C23_Witness ==
  /\ Returned /\ temp_path /\ tmp_file = "removed"
  /\ InTrace("telegram") /\ InTrace("remove")
  /\ cur.prev # NoTime

\* ---------------------------------------------------------------- C24
TelegramCalled == call.fn = "telegram"
\* the call had credentials and an image file to attach: its first request is
\* sendPhoto
PhotoSend == call.args.creds /\ call.args.image_path /\ call.args.file_exists

\* C24: when the photo send of send_telegram_notification fails, for whatever
\* reason, the channel itself sends the text-only message (a second request),
\* and it returns true exactly when the photo send or the text-only send
\* succeeded.  The code sends no text-only message when the photo send fails
\* with anything but a RequestException.
C24_FallbackOnEveryPhotoFailure ==
  TelegramCalled /\ PhotoSend =>
    /\ call.args.primary # "ok" => call.out.requests = 2
    /\ call.out.ret = "True" <=>
         (call.args.primary = "ok" \/ call.args.fallback = "ok")

\* ---------------------------------------------------------------- C25
ChannelCalled == call.fn \in {"telegram", "whatsapp"}
DispatchCalled == call.fn = "dispatch"

\* C25: without its credentials a channel's send returns false without any
\* request, the image-host upload included; without its key the analyzer
\* returns "Analisis Gemini tidak tersedia." without calling the service;
\* without its client the image-host upload returns null without a request.
\* In each case the dispatch goes on: a send that found no credentials or got
\* no link from the image host, or an analysis that was not available, does
\* not keep the later sends from being called nor the gate from being written.
C25_AbsentCredentialsDegrade ==
  /\ ChannelCalled /\ ~call.args.creds =>
       call.out = [ret |-> "False", uploads |-> 0, requests |-> 0]
  /\ ChannelCalled /\ call.args.creds /\ ~call.args.upload_ok /\ call.args.primary = "ok" =>
       call.out.ret = "True"
  /\ call.fn = "analyze" /\ ~call.args.key_configured =>
       call.out = [text |-> "Analisis Gemini tidak tersedia.", requests |-> 0]
  /\ call.fn = "upload" /\ ~call.args.client_configured =>
       call.out = [link |-> None, requests |-> 0]
  /\ DispatchCalled /\ call.out.persist = "ok" =>
       /\ call.args.telegram => call.out.tg # "none"
       /\ call.args.telegram /\ ~call.args.telegram_creds => call.out.tg = "False"
       /\ call.args.whatsapp => call.out.wa # "none"
       /\ call.args.whatsapp /\ ~call.args.whatsapp_creds => call.out.wa = "False"
       /\ ~call.args.analysis => call.out.analysis = None
       /\ call.out.gate /\ call.out.errors = 0

\* a dispatch whose Telegram send found no credentials went on to a WhatsApp
\* send that delivered
C25_Witness ==
  /\ DispatchCalled /\ call.args.telegram /\ ~call.args.telegram_creds
  /\ call.out.tg = "False" /\ call.out.wa = "True" /\ call.out.gate

\* ---------------------------------------------------------------- C26
\* C26: app.py and run.py implement one dispatch policy.  In every state
\* either of them reaches, with the same detections, clock readings, dispatch
\* duration and flags, both start a dispatch for the same detections, call
\* the same channels and write the same time for the label when the dispatch
\* ends.  The code writes the time the dispatch ended in app.py and the time
\* it began in run.py.
C26_SamePolicy ==
  /\ pc = "for" /\ detected_objects # << >> =>
       (EligibleIn("app", HeadLabel) <=> EligibleIn("cli", HeadLabel))
  /\ (enable_whatsapp => WhatsappConfigured) =>
       (WhatsappWantedIn("app") <=> WhatsappWantedIn("cli"))
  /\ Returned /\ InTrace("gate") => GateTimeIn("app", now) = GateTimeIn("cli", now)

\* ---------------------------------------------------------------- C27
\* the frame holds a later detection with the label of the dispatch that has
\* just returned
SameLabelFollows ==
  /\ Len(detected_objects) >= 2
  /\ Lower(detected_objects[2].label) = label

\* C27: with a cooldown of at least one second, when the first dispatch of a
\* frame for a label has completed, whatever its outcome, a later detection
\* of the same label in that frame is found in cooldown, so that the frame
\* starts at most one dispatch for the label.  In the code a dispatch whose
\* persist step raised leaves the gate unwritten and the next detection of
\* the label is dispatched again.
C27_OneDispatchPerLabelAndFrame ==
  Returned /\ notif_cooldown >= 1 /\ SameLabelFollows => ~Eligible(label)

\* ---------------------------------------------------------------- C28
\* C28: the gates of the labels are independent.  A dispatch for one label
\* leaves the entry of the other as it was and, when it has returned, the
\* other label is allowed exactly when its own entry is older than the
\* cooldown (so a frame with an eligible fire and an eligible smoke detection
\* starts two dispatches); a detection turned down by the check changes no
\* entry.
C28_GatesIndependent ==
  [][ /\ pc = "dispatch" =>
           \A other \in AlertLabels \ {label} :
             /\ Get(last_notification_time', other) = Get(last_notification_time, other)
             /\ Eligible(other)' <=>
                  (now' - Get(last_notification_time, other) > notif_cooldown)
      /\ pc = "for" /\ detected_objects # << >> /\ ~Eligible(HeadLabel) =>
           last_notification_time' = last_notification_time ]_vars

\* a smoke dispatch began at the moment the dispatch for fire wrote its gate
C28_Witness ==
  /\ Returned /\ mode = "app" /\ label = "smoke"
  /\ "fire" \in DOMAIN last_notification_time
  /\ last_notification_time["fire"] = cur.start

\* ---------------------------------------------------------------- C29
\* the boxes detect() read whose class name lower-cases to fire or smoke
AlertBoxes ==
  { i \in 1..call.args.processed : Lower(LabelRaw(call.args.boxes[i].cls)) \in AlertLabels }

\* C29: every detection detect() returns has a label that lower-cases to fire
\* or smoke, and it returns one for each such box and none for a box of any
\* other class, a class id without a name included; so the loop of run.py,
\* which does not test the label, lets through its check exactly what the
\* loop of app.py, which does, lets through.
C29_DetectReturnsOnlyAlertLabels ==
  DetectCalled =>
    /\ \A i \in DOMAIN call.out.objects :
         /\ Lower(call.out.objects[i].label) \in AlertLabels
         /\ EligibleIn("cli", Lower(call.out.objects[i].label))
              <=> EligibleIn("app", Lower(call.out.objects[i].label))
    /\ call.out.fed = 3 /\ call.args.predict = "results" =>
         Len(call.out.objects) = Cardinality(AlertBoxes)

\* detect() read a box of a class without a name and one named "Fire", and
\* returned the second alone
C29_Witness ==
  /\ DetectCalled /\ call.args.processed = 2
  /\ LabelRaw(call.args.boxes[1].cls) = UnknownName(3)
  /\ Len(call.out.objects) = 1 /\ call.out.objects[1].label = "Fire"

\* ---------------------------------------------------------------- C30
\* how often the dispatch that was called made the call e
Calls(e) == Cardinality({ i \in DOMAIN call.out.trace : call.out.trace[i] = e })

\* the requests the functions of a dispatch make are bounded
RequestsBounded ==
  /\ call.fn = "analyze" => call.out.requests <= 1
  /\ call.fn = "upload" => call.out.requests <= 1
  /\ TelegramCalled => call.out.uploads <= 1 /\ call.out.requests <= 2
  /\ call.fn = "whatsapp" => call.out.uploads <= 1 /\ call.out.requests <= 1

\* C30 as stated: in one dispatch the analyzer is called at most once and the
\* send of each enabled channel exactly once; a dispatch whose persist step
\* raised calls no send
C30_AsStated ==
  /\ RequestsBounded
  /\ DispatchCalled =>
       /\ Calls("analyze") <= 1
       /\ call.args.telegram => Calls("telegram") = 1
       /\ call.args.whatsapp => Calls("whatsapp") = 1

\* C30 (amended): one dispatch makes a bounded number of requests, without a
\* retry loop: the analyzer is called at most once; the send of each enabled
\* channel is invoked exactly once when the persist step succeeded and not at
\* all when it raised, and the send of a channel that is not enabled never;
\* send_telegram_notification makes at most one upload and two Telegram
\* requests, send_whatsapp_notification at most one upload and one request.
C30_BoundedRequests ==
  /\ RequestsBounded
  /\ DispatchCalled =>
       /\ Calls("analyze") <= 1
       /\ Calls("telegram") =
            (IF call.args.telegram /\ call.out.persist = "ok" THEN 1 ELSE 0)
       /\ Calls("whatsapp") =
            (IF call.args.whatsapp /\ call.out.persist = "ok" THEN 1 ELSE 0)

\* a Telegram send uploaded the image once, failed to send the photo and sent
\* the text fallback: two requests
C30_Witness ==
  /\ TelegramCalled /\ call.args.primary = "request_error"
  /\ call.out.uploads = 1 /\ call.out.requests = 2
====
